---------------------------- MODULE Spec2Model ----------------------------
(***************************************************************************)
(* Step library of features/steps/naemon.py: behave steps that fill two    *)
(* configuration models, write them to disk, run the naemon executable in  *)
(* verify (-v) or daemon (-d) mode and assert on its exit code.            *)
(*                                                                         *)
(* A Python string is modelled as the sequence of its blank-separated     *)
(* words, so that '+' is \o and the step patterns' (.+) groups capture     *)
(* word sequences.  The scenario context is a record; every step handler   *)
(* is an operator from (context, environment) to the context it leaves,    *)
(* where the environment says which external operations raise.             *)
(***************************************************************************)
EXTENDS Integers, Sequences, FiniteSets, TLC

\* ------------------------------------------------------------- bounds
\* Largest number of add_obj entries the object-configuration model holds.
MaxObjs == 2

\* ------------------------------------------------------- input domains
\* A table is its heading and the sequence of its rows, a row the tuple of its
\* cells in the heading's order.  All tables here have the heading of the
\* fixture table of invalid_objconfig.
Heading == <<"use", "host_name", "address", "check_command">>

\* The fixture row of invalid_objconfig and two minimal valid hosts.
InvalidRow == <<"default-host", "invalid_host", "127.0.0.1", "non_existing">>

ValidRow == <<"default-host", "host1", "127.0.0.1", "check_dummy">>

SecondRow == <<"default-host", "host2", "127.0.0.2", "check_dummy">>

InvalidTable == << InvalidRow >>

\* The tables scenarios give AddObject: one without rows and one of two rows.
Tables == { << >>, << ValidRow, SecondRow >> }

ObjTypes == { <<"host">>, <<"service">> }

Params == { <<"invalid_param">>, <<"log_file">> }

Values == { <<"x">> }

\* Exit statuses the executable fails with (subprocess.call gives -N when the
\* child dies of signal N).
ErrCodes == { -1, 1 }

\* context.wrkdir, context.config.userdata['naemon_exec_path'] and the two
\* models' filename attributes.
wrkdir == <<"/wrk">>

naemon_exec_path == <<"src/naemon/naemon">>

obj_filename == <<"naemon_objects.cfg">>

sys_filename == <<"naemon.cfg">>

Paths == { obj_filename, sys_filename }

\* ---------------------------------------------------------------- state
VARIABLES
    naemonobjconfig,   \* object-configuration model: sequence of add_obj entries
    naemonsysconfig,   \* system-configuration model: parameter -> optional value
    fs,                \* the files: path -> [exists, content]
    checkresults,      \* whether the checkresults directory exists
    return_code,       \* context.return_code: << >> while unset, else << c >>
    daemon,            \* the executable: its exit status on a bad configuration
    step,              \* the step the runner executed last
    trace,             \* the external operations that step performed, in order
    exc,               \* the exception that escaped that step, or "none"
    last_exit,         \* exit status of the latest completed invocation, << >> if none
    again              \* whether that step is the one executed before it, repeated

vars ==
    << naemonobjconfig, naemonsysconfig, fs, checkresults,
       return_code, daemon, step, trace, exc, last_exit, again >>

NoValue == << >>

NoTable == << >>

NoCode == << >>

\* A file: whether it exists and, if so, its lines.
File(exists, content) == [exists |-> exists, content |-> content]

\* What is at a path nothing was written to.
NoFile(path) == File(FALSE, << >>)

\* ------------------------------------------- configuration models
\* add_obj(type, table): the model accumulates the typed table it is given.
add_obj(cfg, object_type, table) ==
    Append(cfg, [type |-> object_type, table |-> table])

\* set_var(name, value): key-value settings, a later value replaces an earlier.
set_var(cfg, parameter, value) ==
    (parameter :> value) @@ cfg

RECURSIVE ObjLines(_)
\* One object definition per row of every accumulated table, in order.
ObjLines(cfg) ==
    IF cfg = << >> THEN << >>
    ELSE [i \in 1..Len(Head(cfg).table) |->
             [type |-> Head(cfg).type, row |-> Head(cfg).table[i]]]
         \o ObjLines(Tail(cfg))

TemplateRow == <<"", "default-host", "", "check_dummy">>

\* The object file: the built-in default-host template, then the objects.
ObjRender(cfg) ==
    << [type |-> <<"host">>, row |-> TemplateRow] >> \o ObjLines(cfg)

ParamOrder == << <<"invalid_param">>, <<"log_file">> >>

RECURSIVE SysLines(_, _)
SysLines(cfg, keys) ==
    IF keys = << >> THEN << >>
    ELSE (IF cfg[Head(keys)] = NoValue THEN << >>
          ELSE << [key |-> Head(keys), value |-> cfg[Head(keys)]] >>)
         \o SysLines(cfg, Tail(keys))

\* The system file: the pointer to the object file, then every setting made.
SysRender(cfg) ==
    << [key |-> <<"cfg_file">>, value |-> obj_filename] >> \o SysLines(cfg, ParamOrder)

\* ------------------------------------------------------- the executable
\* The configuration the executable reads is the system file and, through its
\* cfg_file setting, the object file.  An unrecognized parameter or an object
\* whose check_command does not exist makes it invalid; so does a missing file.
SysFileValid(f) ==
    /\ f.exists
    /\ \A i \in 1..Len(f.content) :
          "key" \in DOMAIN f.content[i] /\ f.content[i].key # <<"invalid_param">>

\* The cell of a row under a heading.
Cell(row, name) == row[CHOOSE i \in 1..Len(Heading) : Heading[i] = name]

ObjFileValid(f) ==
    /\ f.exists
    /\ \A i \in 1..Len(f.content) :
          "row" \in DOMAIN f.content[i]
              /\ Cell(f.content[i].row, "check_command") # "non_existing"

\* The object file a main configuration file points to with cfg_file.
CfgFile(f, files) ==
    LET ptr == { i \in 1..Len(f.content) :
                    /\ "key" \in DOMAIN f.content[i]
                    /\ f.content[i].key = <<"cfg_file">>
                    /\ f.content[i].value \in DOMAIN files }
    IN IF f.exists /\ ptr # {}
       THEN files[f.content[CHOOSE i \in ptr : TRUE].value]
       ELSE File(FALSE, << >>)

\* Exit status of `exe --allow-root <mode> <main configuration file>`: 0 on a
\* valid configuration, the executable's failure status d otherwise, in verify
\* mode and in daemon mode alike.  It is a function of the argument list and of
\* the files alone.
ExitCode(d, args, files) ==
    LET main == IF Len(args) >= 4 /\ args[4] \in DOMAIN files
                THEN files[args[4]] ELSE File(FALSE, << >>)
    IN IF Len(args) >= 3 /\ args[3] \in { <<"-v">>, <<"-d">> }
          /\ SysFileValid(main) /\ ObjFileValid(CfgFile(main, files))
       THEN 0
       ELSE d

\* ------------------------------------------------------ scenario context
\* What a handler works on: the state, the table of the step being run
\* (context.table), and what the step has done so far.
Event(op, arg, ok, res) == [op |-> op, arg |-> arg, ok |-> ok, res |-> res]

Raised(ctx) == ctx.exc # "none"

Raise(ctx, kind) == [ctx EXCEPT !.exc = kind]

Log(ctx, e) == [ctx EXCEPT !.trace = Append(@, e)]

\* The environment of one step: the external operation that raises in it, if
\* any (the first raise ends the step, so one is enough).
Envs == { "none", "obj_to_file", "sys_to_file", "mkdir", "launch" }

OkEnv == "none"

\* model.to_file(path): writes the rendering to path, or raises and leaves the
\* file as it was.
to_file(ctx, content, path, ok) ==
    IF ok
    THEN Log([ctx EXCEPT !.fs[path] = File(TRUE, content)],
             Event("to_file", path, TRUE, << >>))
    ELSE Raise(Log(ctx, Event("to_file", path, FALSE, << >>)), "to_file")

\* What an invocation finds: the files and the models at that moment.
Snapshot(ctx) ==
    [fs |-> ctx.fs, objconfig |-> ctx.naemonobjconfig,
     sysconfig |-> ctx.naemonsysconfig]

\* subprocess.call(args): runs args[1] with the rest as its arguments and waits
\* for its exit status; raises OSError when the executable cannot be launched.
subprocess_call(ctx, args, ok) ==
    IF ok
    THEN LET c == ExitCode(ctx.daemon, args, ctx.fs)
         IN [Log(ctx, Event("call", args, TRUE, [code |-> << c >>, snap |-> Snapshot(ctx)]))
                EXCEPT !.last_exit = << c >>, !.result = << c >>]
    ELSE Raise(Log(ctx, Event("call", args, FALSE,
                              [code |-> NoCode, snap |-> Snapshot(ctx)])),
               "launch")

\* ---------------------------------------------------------------- steps
\* A step is its keyword and its text.
Given(text) == << "given", text >>

When(text) == << "when", text >>

Then(text) == << "then", text >>

WriteStep == Given(<<"I", "write", "config", "to", "file">>)

DirStep == Given(<<"I", "have", "directory", "checkresults">>)

VerifyStep == Given(<<"I", "verify", "the", "naemon", "configuration">>)

VerifyFailStep == Given(<<"config", "verification", "fail">>)

VerifyPassStep == Given(<<"config", "verification", "pass">>)

StartStep == When(<<"I", "start", "naemon">>)

StartFailStep == Then(<<"naemon", "should", "fail", "to", "start">>)

StartSuccessStep == Then(<<"naemon", "should", "successfully", "start">>)

InvalidSysStep ==
    Given(<<"I", "have", "an", "invalid", "naemon", "system", "configuration">>)

InvalidObjStep ==
    Given(<<"I", "have", "an", "invalid", "naemon", "object", "configuration">>)

ObjectsStep(object_type) == Given(<<"I", "have", "naemon">> \o object_type \o <<"objects">>)

ConfigStep(parameter, value) ==
    Given(<<"I", "have", "naemon", "config">> \o parameter \o <<"set", "to">> \o value)

\* 'I have naemon (?P<object_type>.+) objects'
MatchesObjects(text) ==
    /\ Len(text) >= 5
    /\ SubSeq(text, 1, 3) = <<"I", "have", "naemon">>
    /\ text[Len(text)] = "objects"

ObjectsGroup(text) == SubSeq(text, 4, Len(text) - 1)

\* 'I have naemon config (?P<parameter>.+) set to (?P<value>.+)': the positions
\* of a "set to" that leaves both groups non-empty; the greedy first group takes
\* the last of them.
SetToAt(text) ==
    { i \in 6..(Len(text) - 2) : text[i] = "set" /\ text[i + 1] = "to" }

MatchesConfig(text) ==
    /\ Len(text) >= 8
    /\ SubSeq(text, 1, 4) = <<"I", "have", "naemon", "config">>
    /\ SetToAt(text) # {}

SplitAt(text) == CHOOSE i \in SetToAt(text) : \A j \in SetToAt(text) : j <= i

ParameterGroup(text) == SubSeq(text, 5, SplitAt(text) - 1)

ValueGroup(text) == SubSeq(text, SplitAt(text) + 2, Len(text))

RECURSIVE execute_steps(_, _, _, _)

\* 'Given I have directory checkresults', a step of another file: makes sure the
\* directory exists.
have_directory(ctx, env) ==
    IF env # "mkdir"
    THEN Log([ctx EXCEPT !.checkresults = TRUE], Event("mkdir", "checkresults", TRUE, << >>))
    ELSE Raise(Log(ctx, Event("mkdir", "checkresults", FALSE, << >>)), "mkdir")

RECURSIVE add_rows_single(_, _, _)
\* Slip: add_obj is given the row being iterated instead of the whole table.
add_rows_single(ctx, rows, object_type) ==
    IF rows = << >> THEN ctx
    ELSE add_rows_single(
             Log([ctx EXCEPT !.naemonobjconfig = add_obj(@, object_type, << Head(rows) >>)],
                 Event("add_obj", << object_type, << Head(rows) >> >>, TRUE, << >>)),
             Tail(rows), object_type)

RECURSIVE add_rows(_, _, _)
\* for row in context.table: context.naemonobjconfig.add_obj(object_type, context.table)
add_rows(ctx, rows, object_type) ==
    IF rows = << >> THEN ctx
    ELSE add_rows(
             Log([ctx EXCEPT !.naemonobjconfig = add_obj(@, object_type, ctx.table)],
                 Event("add_obj", << object_type, ctx.table >>, TRUE, << >>)),
             Tail(rows), object_type)

add_naemon_object(ctx, object_type) == add_rows(ctx, ctx.table, object_type)

set_naemon_parameter(ctx, parameter, value) ==
    Log([ctx EXCEPT !.naemonsysconfig = set_var(@, parameter, value)],
        Event("set_var", << parameter, value >>, TRUE, << >>))

\* Slip: parameter and value swapped in the phrase.
invalid_sysconfig_swapped(ctx, env) ==
    execute_steps(ctx, ConfigStep(<<"x">>, <<"invalid_param">>), NoTable, env)

invalid_sysconfig(ctx, env) ==
    execute_steps(ctx, ConfigStep(<<"invalid_param">>, <<"x">>), NoTable, env)

invalid_objconfig(ctx, env) ==
    execute_steps(ctx, ObjectsStep(<<"host">>), InvalidTable, env)

\* Slip: the model is flushed once written, as a buffer would be.
configuration_to_file_flush(ctx, env) ==
    LET c1 == to_file(ctx, ObjRender(ctx.naemonobjconfig), obj_filename,
                      env # "obj_to_file")
        c2 == IF Raised(c1) THEN c1
              ELSE to_file(c1, SysRender(c1.naemonsysconfig), sys_filename,
                           env # "sys_to_file")
        c3 == IF Raised(c2) THEN c2 ELSE execute_steps(c2, DirStep, NoTable, env)
    IN IF Raised(c3) THEN c3 ELSE [c3 EXCEPT !.naemonobjconfig = << >>]

\* Slip: both models are written to the object model's filename.
configuration_to_file_one_path(ctx, env) ==
    LET c1 == to_file(ctx, ObjRender(ctx.naemonobjconfig), obj_filename,
                      env # "obj_to_file")
        c2 == IF Raised(c1) THEN c1
              ELSE to_file(c1, SysRender(c1.naemonsysconfig), obj_filename,
                           env # "sys_to_file")
    IN IF Raised(c2) THEN c2 ELSE execute_steps(c2, DirStep, NoTable, env)

\* Slip: an exception of the object model's write is swallowed.
configuration_to_file_swallow(ctx, env) ==
    LET c1 == [to_file(ctx, ObjRender(ctx.naemonobjconfig), obj_filename,
                       env # "obj_to_file") EXCEPT !.exc = "none"]
        c2 == to_file(c1, SysRender(c1.naemonsysconfig), sys_filename,
                      env # "sys_to_file")
    IN IF Raised(c2) THEN c2 ELSE execute_steps(c2, DirStep, NoTable, env)

configuration_to_file(ctx, env) ==
    LET c1 == to_file(ctx, ObjRender(ctx.naemonobjconfig), obj_filename,
                      env # "obj_to_file")
        c2 == IF Raised(c1) THEN c1
              ELSE to_file(c1, SysRender(c1.naemonsysconfig), sys_filename,
                           env # "sys_to_file")
    IN IF Raised(c2) THEN c2 ELSE execute_steps(c2, DirStep, NoTable, env)

Executable == wrkdir \o <<"/">> \o naemon_exec_path

\* context.return_code = <the value subprocess.call returned>
set_return_code(ctx) == [ctx EXCEPT !.return_code = ctx.result]

\* Slip: the executable runs on whatever files are there; nothing is written.
config_verification_unwritten(ctx, env) ==
    LET args == << Executable, <<"--allow-root">>, <<"-v">>, sys_filename >>
        c2 == subprocess_call(ctx, args, env # "launch")
    IN IF Raised(c2) THEN c2 ELSE set_return_code(c2)

\* Slip: the configuration is written after the executable has run.
config_verification_write_last(ctx, env) ==
    LET args == << Executable, <<"--allow-root">>, <<"-v">>, sys_filename >>
        c1 == subprocess_call(ctx, args, env # "launch")
    IN IF Raised(c1) THEN c1
       ELSE execute_steps(set_return_code(c1), WriteStep, NoTable, env)

config_verification(ctx, env) ==
    LET c1 == execute_steps(ctx, WriteStep, NoTable, env)
        args == << Executable, <<"--allow-root">>, <<"-v">>, sys_filename >>
        c2 == IF Raised(c1) THEN c1 ELSE subprocess_call(c1, args, env # "launch")
    IN IF Raised(c2) THEN c2 ELSE set_return_code(c2)

\* assert cond, message
assert(ctx, cond, text) ==
    IF cond THEN Log(ctx, Event("assert", text, TRUE, ctx.return_code))
    ELSE Raise(Log(ctx, Event("assert", text, FALSE, ctx.return_code)), "assert")

\* Slip: the code judged is the one the context held when the step began.
config_verification_fail_stale(ctx, env) ==
    LET c1 == execute_steps(ctx, VerifyStep, NoTable, env)
    IN IF Raised(c1) THEN c1
       ELSE assert(c1, ctx.return_code # << 0 >>, "return_code != 0")

config_verification_fail(ctx, env) ==
    LET c1 == execute_steps(ctx, VerifyStep, NoTable, env)
    IN IF Raised(c1) THEN c1
       ELSE assert(c1, c1.return_code # << 0 >>, "return_code != 0")

config_verification_pass(ctx, env) ==
    LET c1 == execute_steps(ctx, VerifyStep, NoTable, env)
    IN IF Raised(c1) THEN c1
       ELSE assert(c1, c1.return_code = << 0 >>, "return_code == 0")

\* Slip: the exit status is not stored in context.return_code.
naemon_start_unrecorded(ctx, env) ==
    LET c1 == execute_steps(ctx, WriteStep, NoTable, env)
        args == << Executable, <<"--allow-root">>, <<"-d">>, sys_filename >>
    IN IF Raised(c1) THEN c1 ELSE subprocess_call(c1, args, env # "launch")

\* Slip: the verify flag copied into the start step.
naemon_start_verify_flag(ctx, env) ==
    LET c1 == execute_steps(ctx, WriteStep, NoTable, env)
        args == << Executable, <<"--allow-root">>, <<"-v">>, sys_filename >>
        c2 == IF Raised(c1) THEN c1 ELSE subprocess_call(c1, args, env # "launch")
    IN IF Raised(c2) THEN c2 ELSE set_return_code(c2)

naemon_start(ctx, env) ==
    LET c1 == execute_steps(ctx, WriteStep, NoTable, env)
        args == << Executable, <<"--allow-root">>, <<"-d">>, sys_filename >>
        c2 == IF Raised(c1) THEN c1 ELSE subprocess_call(c1, args, env # "launch")
    IN IF Raised(c2) THEN c2 ELSE set_return_code(c2)

naemon_start_fail(ctx, env) ==
    LET c1 == execute_steps(ctx, StartStep, NoTable, env)
    IN IF Raised(c1) THEN c1
       ELSE assert(c1, c1.return_code # << 0 >>, "return_code != 0")

naemon_start_success(ctx, env) ==
    LET c1 == execute_steps(ctx, StartStep, NoTable, env)
    IN IF Raised(c1) THEN c1
       ELSE assert(c1, c1.return_code = << 0 >>, "return_code == 0")

\* The step registry: the first handler registered for the step's keyword whose
\* pattern matches the text runs, with the pattern's groups as its arguments.
run_step(ctx, s, env) ==
    LET k == s[1]
        t == s[2]
    IN IF k = "given" /\ MatchesObjects(t) THEN add_naemon_object(ctx, ObjectsGroup(t))
       ELSE IF k = "given" /\ MatchesConfig(t)
            THEN set_naemon_parameter(ctx, ParameterGroup(t), ValueGroup(t))
       ELSE IF s = InvalidSysStep THEN invalid_sysconfig(ctx, env)
       ELSE IF s = InvalidObjStep THEN invalid_objconfig(ctx, env)
       ELSE IF s = WriteStep THEN configuration_to_file(ctx, env)
       ELSE IF s = VerifyStep THEN config_verification(ctx, env)
       ELSE IF s = VerifyFailStep THEN config_verification_fail(ctx, env)
       ELSE IF s = VerifyPassStep THEN config_verification_pass(ctx, env)
       ELSE IF s = StartStep THEN naemon_start(ctx, env)
       ELSE IF s = StartFailStep THEN naemon_start_fail(ctx, env)
       ELSE IF s = StartSuccessStep THEN naemon_start_success(ctx, env)
       ELSE IF s = DirStep THEN have_directory(ctx, env)
       ELSE Raise(ctx, "undefined")

\* context.execute_steps(text): runs the step with its table as context.table,
\* puts the caller's table back, and raises if the step failed.
execute_steps(ctx, s, table, env) ==
    [run_step([ctx EXCEPT !.table = table], s, env) EXCEPT !.table = ctx.table]

\* --------------------------------------------------------------- runner
Init ==
    /\ naemonobjconfig = << >>
    /\ naemonsysconfig = [p \in Params |-> NoValue]
    /\ fs = [p \in Paths |-> NoFile(p)]
    /\ checkresults = FALSE
    /\ return_code = NoCode
    /\ daemon \in ErrCodes
    /\ step = [keyword |-> "none", text |-> << >>, table |-> NoTable]
    /\ trace = << >>
    /\ exc = "none"
    /\ last_exit = NoCode
    /\ again = FALSE

StepKey(st) == << st.keyword, st.text >>

\* The context a scenario step starts in.
Context(table) ==
    [naemonobjconfig |-> naemonobjconfig, naemonsysconfig |-> naemonsysconfig,
     fs |-> fs, checkresults |-> checkresults, return_code |-> return_code,
     daemon |-> daemon, last_exit |-> last_exit,
     table |-> table, trace |-> << >>, exc |-> "none", result |-> NoCode]

\* The runner executes one step of the scenario; a step that raised has failed
\* the scenario, and no further step of it runs.
Run(s, table, env) ==
    /\ exc = "none"
    /\ \E c \in { run_step(Context(table), s, env) } :
          /\ naemonobjconfig' = c.naemonobjconfig
          /\ naemonsysconfig' = c.naemonsysconfig
          /\ fs' = c.fs
          /\ checkresults' = c.checkresults
          /\ return_code' = c.return_code
          /\ last_exit' = c.last_exit
          /\ trace' = c.trace
          /\ exc' = c.exc
    /\ step' = [keyword |-> s[1], text |-> s[2], table |-> table]
    /\ again' = (s = StepKey(step))
    /\ UNCHANGED daemon

AddObject ==
    \E object_type \in ObjTypes, table \in Tables :
        /\ Len(naemonobjconfig) + Len(table) <= MaxObjs
        /\ Run(ObjectsStep(object_type), table, OkEnv)

SetParameter ==
    \E parameter \in Params, value \in Values :
        Run(ConfigStep(parameter, value), NoTable, OkEnv)

InvalidSysConfig == Run(InvalidSysStep, NoTable, OkEnv)

InvalidObjConfig ==
    /\ Len(naemonobjconfig) + 1 <= MaxObjs
    /\ Run(InvalidObjStep, NoTable, OkEnv)

WriteConfigToFile == \E env \in Envs : Run(WriteStep, NoTable, env)

VerifyConfiguration == \E env \in Envs : Run(VerifyStep, NoTable, env)

StartDaemon == \E env \in Envs : Run(StartStep, NoTable, env)

AssertVerificationFails == \E env \in Envs : Run(VerifyFailStep, NoTable, env)

AssertVerificationPasses == \E env \in Envs : Run(VerifyPassStep, NoTable, env)

AssertStartFails == \E env \in Envs : Run(StartFailStep, NoTable, env)

AssertStartSucceeds == \E env \in Envs : Run(StartSuccessStep, NoTable, env)

Next ==
    \/ AddObject
    \/ SetParameter
    \/ InvalidSysConfig
    \/ InvalidObjConfig
    \/ WriteConfigToFile
    \/ VerifyConfiguration
    \/ StartDaemon
    \/ AssertVerificationFails
    \/ AssertVerificationPasses
    \/ AssertStartFails
    \/ AssertStartSucceeds

Spec == Init /\ [][Next]_vars

\* ----------------------------------------------------------- properties
IsCall(e) == e.op = "call"

CallsIn(tr) == SelectSeq(tr, IsCall)

OpsIn(tr) == { tr[i].op : i \in 1..Len(tr) }

VerifySteps == { VerifyStep, VerifyFailStep, VerifyPassStep }

StartSteps == { StartStep, StartFailStep, StartSuccessStep }

FailSteps == { VerifyFailStep, StartFailStep }

PassSteps == { VerifyPassStep, StartSuccessStep }

\* C1: an assertion step that gets as far as its assert has run exactly one
\* invocation of its own kind just before it, and its verdict is the one that
\* invocation's exit code c calls for: the "fail" steps raise the assertion
\* error iff c = 0, the "pass" steps iff c # 0, and otherwise pass silently; a
\* step whose invocation raised evaluates no assert.
C1_AssertJudgesFreshExitCode ==
    LET s == StepKey(step)
        calls == CallsIn(trace)
        n == Len(trace)
    IN s \in FailSteps \cup PassSteps =>
          /\ exc \in {"none", "assert"} =>
                /\ Len(calls) = 1
                /\ n >= 2 /\ trace[n].op = "assert" /\ trace[n - 1].op = "call"
                /\ trace[n - 1].ok
                /\ trace[n - 1].arg[3] = (IF s \in VerifySteps THEN <<"-v">> ELSE <<"-d">>)
                /\ LET c == trace[n - 1].res.code[1]
                   IN IF s \in FailSteps
                      THEN exc = (IF c = 0 THEN "assert" ELSE "none")
                      ELSE exc = (IF c # 0 THEN "assert" ELSE "none")
          /\ exc \notin {"none", "assert"} => "assert" \notin OpsIn(trace)

C1_Witness ==
    /\ StepKey(step) = VerifyFailStep
    /\ exc = "assert"
    /\ return_code = << 0 >>

\* C2: every invocation comes right after a successful write of the object
\* file, of the system file and the directory step, in the same step, and finds
\* both files equal to the renderings of the two models as they are now.
C2_InvocationSeesCurrentConfig ==
    \A i \in 1..Len(trace) :
        trace[i].op = "call" =>
            /\ i >= 4
            /\ trace[i - 3].op = "to_file" /\ trace[i - 3].arg = obj_filename
            /\ trace[i - 3].ok
            /\ trace[i - 2].op = "to_file" /\ trace[i - 2].arg = sys_filename
            /\ trace[i - 2].ok
            /\ trace[i - 1].op = "mkdir" /\ trace[i - 1].ok
            /\ LET snap == trace[i].res.snap
               IN /\ snap.objconfig = naemonobjconfig
                  /\ snap.sysconfig = naemonsysconfig
                  /\ snap.fs[obj_filename] =
                        [exists |-> TRUE, content |-> ObjRender(naemonobjconfig)]
                  /\ snap.fs[sys_filename] =
                        [exists |-> TRUE, content |-> SysRender(naemonsysconfig)]

C2_Witness ==
    /\ StepKey(step) = StartStep
    /\ exc = "none"
    /\ Len(naemonobjconfig) = MaxObjs
    /\ naemonsysconfig[<<"log_file">>] # NoValue
    /\ CallsIn(trace) # << >>

C4_WriteIdempotent ==
    [][ StepKey(step') = WriteStep =>
          /\ naemonobjconfig' = naemonobjconfig
          /\ naemonsysconfig' = naemonsysconfig
          /\ return_code' = return_code
          /\ (StepKey(step) = WriteStep /\ exc = "none") =>
                (fs' = fs /\ checkresults' = checkresults) ]_vars

C4_Witness ==
    /\ again
    /\ StepKey(step) = WriteStep
    /\ exc = "none"
    /\ naemonobjconfig # << >>

C6_AddOncePerRowWithFullTable ==
    [][ \A t \in ObjTypes :
          step'.text = <<"I", "have", "naemon">> \o t \o <<"objects">> =>
            /\ Len(trace') = Len(step'.table)
            /\ \A i \in 1..Len(step'.table) :
                  /\ trace'[i].op = "add_obj"
                  /\ trace'[i].arg = << t, step'.table >>
            /\ naemonobjconfig' =
                  naemonobjconfig
                      \o [i \in 1..Len(step'.table) |->
                             [type |-> t, table |-> step'.table]]
            /\ UNCHANGED << naemonsysconfig, fs, checkresults, return_code,
                            last_exit >>
            /\ exc' = "none" ]_vars

C6_Witness ==
    /\ step.text = <<"I", "have", "naemon", "service", "objects">>
    /\ Len(step.table) = 2
    /\ Len(trace) = 2

\* C7: 'invalid system configuration' leaves what SetParameter(invalid_param, x)
\* leaves, and 'invalid object configuration' what AddObject(host, T) leaves for
\* the one-row fixture table T; neither does anything else.
C7_FixtureTable ==
    << <<"default-host", "invalid_host", "127.0.0.1", "non_existing">> >>

\* What SetParameter(invalid_param, x) and AddObject(host, T) leave from here.
C7_AfterSetParameter ==
    set_naemon_parameter(Context(NoTable), <<"invalid_param">>, <<"x">>)

C7_AfterAddObject == add_naemon_object(Context(C7_FixtureTable), <<"host">>)

C7_CompositeIsPrimitive ==
    [][ /\ StepKey(step') = InvalidSysStep =>
            /\ naemonsysconfig' = C7_AfterSetParameter.naemonsysconfig
            /\ trace' = C7_AfterSetParameter.trace
            /\ exc' = "none"
            /\ UNCHANGED << naemonobjconfig, fs, checkresults, return_code,
                            last_exit >>
        /\ StepKey(step') = InvalidObjStep =>
            /\ naemonobjconfig' = C7_AfterAddObject.naemonobjconfig
            /\ trace' = C7_AfterAddObject.trace
            /\ exc' = "none"
            /\ UNCHANGED << naemonsysconfig, fs, checkresults, return_code,
                            last_exit >> ]_vars

C7_Witness ==
    /\ StepKey(step) = InvalidSysStep
    /\ naemonsysconfig[<<"invalid_param">>] = <<"x">>
    /\ naemonobjconfig # << >>

\* C8: the recorded exit code is that of the latest completed invocation, of
\* either kind, whatever steps have run since.
C8_ReturnCodeIsLastExit == return_code = last_exit

C8_Witness ==
    /\ StepKey(step) = InvalidSysStep
    /\ return_code = << 0 >>

\* C9: every invocation has the argument list [wrkdir/exec path, --allow-root,
\* mode, system file], mode -v in the verify steps and -d in the start steps;
\* no other step invokes anything.
C9_ArgumentList ==
    \A i \in 1..Len(trace) :
        trace[i].op = "call" =>
            /\ StepKey(step) \in VerifySteps \cup StartSteps
            /\ trace[i].arg =
                  << <<"/wrk", "/", "src/naemon/naemon">>, <<"--allow-root">>,
                     IF StepKey(step) \in VerifySteps THEN <<"-v">> ELSE <<"-d">>,
                     <<"naemon.cfg">> >>
            /\ \A j \in 1..Len(trace[i].arg) : trace[i].arg[j] # obj_filename

C9_Witness ==
    /\ StepKey(step) = StartFailStep
    /\ CallsIn(trace) # << >>

\* C10: a step invokes the process at most once; what raises is the last thing
\* the step does and its exception leaves the step; a raising model write means
\* no invocation, a raising write or launch leaves the recorded exit code as it
\* was and no assert evaluated; after a raising object write the system file is
\* not written and the directory step not run.
C10_AllOrNothing ==
    [][ /\ Len(CallsIn(trace')) <= 1
        /\ \A i \in 1..Len(trace') :
              ~trace'[i].ok =>
                 /\ i = Len(trace')
                 /\ exc' = (IF trace'[i].op = "call" THEN "launch" ELSE trace'[i].op)
        /\ exc' = "to_file" => "call" \notin OpsIn(trace')
        /\ exc' \in {"to_file", "launch"} =>
              /\ return_code' = return_code
              /\ "assert" \notin OpsIn(trace')
        /\ (exc' = "to_file" /\ trace'[Len(trace')].arg = obj_filename) =>
              /\ Len(trace') = 1
              /\ fs'[sys_filename] = fs[sys_filename]
              /\ checkresults' = checkresults ]_vars

C10_Witness ==
    /\ StepKey(step) = VerifyPassStep
    /\ exc = "to_file"
    /\ trace = << Event("to_file", obj_filename, FALSE, << >>) >>
    /\ return_code # NoCode

=============================================================================
